---- MODULE Spec2Model ----
(***************************************************************************)
(* Atomic swap platform (BTC <-> ETH): the coordinator's HTTP handlers     *)
(* (api/server.ts) over the swaps table (db/setup.ts), the escrow manager  *)
(* (eth/escrow.ts), the EthEscrow contract and the Bitcoin HTLC script     *)
(* (btc/htlc.ts).                                                          *)
(*                                                                         *)
(* Time is counted in units of one hour (3600 s), the granularity of       *)
(* expiration_hours; the server clock and the chain clock are one clock.   *)
(* One swap row is followed.  A handler that awaits a chain call is two    *)
(* steps: ...Begin reads the row and validates, ...Finish is the chain     *)
(* transaction landing followed by the UPDATE.                             *)
(***************************************************************************)
EXTENDS Integers, Sequences, FiniteSets, TLC

VARIABLES
    now,       \* Date.now() / block.timestamp, in hours
    swap,      \* the row of table swaps, or NoSwap before the INSERT
    escrows,   \* deployed EthEscrow contracts; a contract's address is its index
    inflight,  \* requests suspended on a chain call
    htlc,      \* the Bitcoin output locked by the HTLC script
    last       \* the last HTTP response or transaction receipt

vars == <<now, swap, escrows, inflight, htlc, last>>

\* ------------------------------------------------------------------ bounds

MaxTime == 2
MaxEscrows == 2
MaxInflight == 1
MaxUtxos == 2

\* ------------------------------------------------------------ data

\* SQL NULL / a missing field of a request body, for text; and for the columns
\* the model holds as numbers (a contract address, a timestamp).
NULL == "NULL"
NoAddress == 0
NoTime == 0
\* No redeem script: the btc_redeem_script column before fund-btc, or a request
\* body without one.
NoScript == [hashlock |-> NULL, recipientPubkey |-> NULL, locktime |-> NoTime,
             refundPubkey |-> NULL]
\* No row with the id asked for.
NoSwap == [id |-> 0]

\* 32-byte values.  The bytes of s1 are valid UTF-8 text, those of s2 are not.
Bytes32 == {"s1", "s2"}
Utf8Able == {"s1"}

\* The server's signer (ethWallet), another account, and address(0).
Wallet == "W"
ZeroAddress == "0x0"
Accounts == {"W", "A"}

\* Strings a caller can send as `secret`:
\*   hex  - the 64 hex digits of the 32 bytes b (what generateSecret returns)
\*   utf8 - the text whose UTF-8 encoding is the 32 bytes b
\*   hexjunk - the 64 hex digits of b followed by two characters that are not
\*             hex digits
HexString(b) == [enc |-> "hex", b |-> b]
Utf8String(b) == [enc |-> "utf8", b |-> b]
HexJunkString(b) == [enc |-> "hexjunk", b |-> b]
SecretStrings ==
    {HexString(b) : b \in Bytes32} \cup {Utf8String(b) : b \in Utf8Able}
      \cup {HexJunkString(b) : b \in Bytes32}
\* secret.length, in characters.
strLength(str) ==
    CASE str.enc = "hex" -> 64
      [] str.enc = "hexjunk" -> 66
      [] str.enc = "utf8" -> 32
      [] OTHER -> 0
MissingSecret == [enc |-> "missing", b |-> NULL]

\* crypto.createHash('sha256'), injective on the byte strings of the model.
sha256(bytes) == "sha256(" \o bytes \o ")"

\* The decoding of update(secret, 'hex'): it stops at the first pair of
\* characters that is not two hex digits, so the hex string, with or without
\* characters after it, gives its 32 bytes, and a text string decodes to some
\* shorter byte string.
hexDecode(str) ==
    IF str.enc \in {"hex", "hexjunk"} THEN str.b ELSE "short(" \o str.b \o ")"

generateSecret == {HexString(b) : b \in Bytes32}

generateHashlock(secret) == sha256(hexDecode(secret))

\* ethers.parseEther(ethers.formatEther(eth_amount)): the wei the TEXT column spells.
parseEther(eth_amount) == IF eth_amount = "1" THEN 1 ELSE 0

\* ethers.toUtf8Bytes(secret): the bytes of the characters.  A text gives the
\* bytes it encodes, a string of hex digits gives one byte per digit.
toUtf8Bytes(str) ==
    IF str.enc = "utf8" THEN str.b ELSE "chars(" \o str.enc \o "," \o str.b \o ")"

\* ethers.keccak256, injective on the byte strings of the model and different
\* from sha256 on each of them.
keccak256(bytes) == "keccak256(" \o bytes \o ")"

\* EthEscrowManager.generateHashlock(secret)
EthEscrowManager_generateHashlock(secret) == keccak256(toUtf8Bytes(secret))

\* ethers.zeroPadValue(ethers.toUtf8Bytes(secret), 32): the 64 characters of a
\* hex string are 64 bytes, which zeroPadValue refuses; toUtf8Bytes refuses a
\* missing secret.
Throws == "throws"
toBytes32(str) == IF str.enc = "utf8" THEN str.b ELSE Throws

\* ------------------------------------------------- EthEscrow (the contract)

\* constructor with the require on _timeout left out.
constructorAnyTimeout(sender, value, _recipient, _hashlock, _timeout, t) ==
    IF ~(value > 0) THEN [reason |-> "Must send ETH", esc |-> NULL]
    ELSE IF _recipient = ZeroAddress THEN [reason |-> "Invalid recipient", esc |-> NULL]
    ELSE [reason |-> "ok",
          esc |-> [deployer |-> sender, recipient |-> _recipient,
                   hashlock |-> _hashlock, timeout |-> _timeout, amount |-> value,
                   claimed |-> FALSE, refunded |-> FALSE,
                   balance |-> value, SecretRevealed |-> NULL,
                   paidRecipient |-> 0, paidDeployer |-> 0]]

\* constructor(_recipient, _hashlock, _timeout) payable, sent by `sender` with
\* msg.value `value` at block.timestamp t.
constructor(sender, value, _recipient, _hashlock, _timeout, t) ==
    IF ~(value > 0) THEN [reason |-> "Must send ETH", esc |-> NULL]
    ELSE IF _recipient = ZeroAddress THEN [reason |-> "Invalid recipient", esc |-> NULL]
    ELSE IF ~(_timeout > t) THEN [reason |-> "Timeout must be in the future", esc |-> NULL]
    ELSE [reason |-> "ok",
          esc |-> [deployer |-> sender, recipient |-> _recipient,
                   hashlock |-> _hashlock, timeout |-> _timeout, amount |-> value,
                   claimed |-> FALSE, refunded |-> FALSE,
                   balance |-> value, SecretRevealed |-> NULL,
                   paidRecipient |-> 0, paidDeployer |-> 0]]

\* claim with the onlyRecipient modifier left out.
claimAnyCaller(e, sender, secret) ==
    IF e.claimed THEN [reason |-> "Already claimed", esc |-> e]
    ELSE IF e.refunded THEN [reason |-> "Already refunded", esc |-> e]
    ELSE IF sha256(secret) # e.hashlock THEN [reason |-> "Invalid secret", esc |-> e]
    ELSE [reason |-> "ok",
          esc |-> [e EXCEPT !.claimed = TRUE, !.SecretRevealed = secret,
                            !.balance = e.balance - e.amount,
                            !.paidRecipient = e.paidRecipient + e.amount]]

\* claim with a deadline added: refused once block.timestamp >= timeout.
claimBeforeTimeoutOnly(e, sender, secret) ==
    IF sender # e.recipient THEN [reason |-> "Only recipient can call this", esc |-> e]
    ELSE IF now >= e.timeout THEN [reason |-> "Timeout reached", esc |-> e]
    ELSE IF e.claimed THEN [reason |-> "Already claimed", esc |-> e]
    ELSE IF e.refunded THEN [reason |-> "Already refunded", esc |-> e]
    ELSE IF sha256(secret) # e.hashlock THEN [reason |-> "Invalid secret", esc |-> e]
    ELSE [reason |-> "ok",
          esc |-> [e EXCEPT !.claimed = TRUE, !.SecretRevealed = secret,
                            !.balance = e.balance - e.amount,
                            !.paidRecipient = e.paidRecipient + e.amount]]

\* claim with the notRefunded modifier left out.
claimNoRefundedCheck(e, sender, secret) ==
    IF sender # e.recipient THEN [reason |-> "Only recipient can call this", esc |-> e]
    ELSE IF e.claimed THEN [reason |-> "Already claimed", esc |-> e]
    ELSE IF sha256(secret) # e.hashlock THEN [reason |-> "Invalid secret", esc |-> e]
    ELSE [reason |-> "ok",
          esc |-> [e EXCEPT !.claimed = TRUE, !.SecretRevealed = secret,
                            !.balance = e.balance - e.amount,
                            !.paidRecipient = e.paidRecipient + e.amount]]

\* claim with the require on the secret's hash left out.
claimNoSecretCheck(e, sender, secret) ==
    IF sender # e.recipient THEN [reason |-> "Only recipient can call this", esc |-> e]
    ELSE IF e.claimed THEN [reason |-> "Already claimed", esc |-> e]
    ELSE IF e.refunded THEN [reason |-> "Already refunded", esc |-> e]
    ELSE [reason |-> "ok",
          esc |-> [e EXCEPT !.claimed = TRUE, !.SecretRevealed = secret,
                            !.balance = e.balance - e.amount,
                            !.paidRecipient = e.paidRecipient + e.amount]]

\* function claim(bytes32 secret) external onlyRecipient notClaimed notRefunded
claim(e, sender, secret) ==
    IF sender # e.recipient THEN [reason |-> "Only recipient can call this", esc |-> e]
    ELSE IF e.claimed THEN [reason |-> "Already claimed", esc |-> e]
    ELSE IF e.refunded THEN [reason |-> "Already refunded", esc |-> e]
    ELSE IF sha256(secret) # e.hashlock THEN [reason |-> "Invalid secret", esc |-> e]
    ELSE [reason |-> "ok",
          esc |-> [e EXCEPT !.claimed = TRUE, !.SecretRevealed = secret,
                            !.balance = e.balance - e.amount,
                            !.paidRecipient = e.paidRecipient + e.amount]]

\* refund with the notClaimed modifier left out.
refundNoClaimedCheck(e, sender, t) ==
    IF sender # e.deployer THEN [reason |-> "Only deployer can call this", esc |-> e]
    ELSE IF ~(t >= e.timeout) THEN [reason |-> "Timeout not yet reached", esc |-> e]
    ELSE IF e.refunded THEN [reason |-> "Already refunded", esc |-> e]
    ELSE [reason |-> "ok",
          esc |-> [e EXCEPT !.refunded = TRUE,
                            !.balance = e.balance - e.amount,
                            !.paidDeployer = e.paidDeployer + e.amount]]

\* refund with the afterTimeout modifier left out.
refundAnyTime(e, sender, t) ==
    IF sender # e.deployer THEN [reason |-> "Only deployer can call this", esc |-> e]
    ELSE IF e.claimed THEN [reason |-> "Already claimed", esc |-> e]
    ELSE IF e.refunded THEN [reason |-> "Already refunded", esc |-> e]
    ELSE [reason |-> "ok",
          esc |-> [e EXCEPT !.refunded = TRUE,
                            !.balance = e.balance - e.amount,
                            !.paidDeployer = e.paidDeployer + e.amount]]

\* function refund() external onlyDeployer afterTimeout notClaimed notRefunded
refund(e, sender, t) ==
    IF sender # e.deployer THEN [reason |-> "Only deployer can call this", esc |-> e]
    ELSE IF ~(t >= e.timeout) THEN [reason |-> "Timeout not yet reached", esc |-> e]
    ELSE IF e.claimed THEN [reason |-> "Already claimed", esc |-> e]
    ELSE IF e.refunded THEN [reason |-> "Already refunded", esc |-> e]
    ELSE [reason |-> "ok",
          esc |-> [e EXCEPT !.refunded = TRUE,
                            !.balance = e.balance - e.amount,
                            !.paidDeployer = e.paidDeployer + e.amount]]

\* A transaction receipt / an HTTP response.
Receipt(op, result) == [op |-> op, result |-> result]

\* An account calls claim on a deployed escrow with its own wallet.
EscrowClaim(i, sender, secret) ==
    /\ i \in DOMAIN escrows
    /\ LET r == claim(escrows[i], sender, secret) IN
         /\ escrows' = [escrows EXCEPT ![i] = r.esc]
         /\ last' = Receipt("claim", r.reason)
    /\ UNCHANGED <<now, swap, inflight, htlc>>

\* An account calls refund on a deployed escrow with its own wallet.
EscrowRefund(i, sender) ==
    /\ i \in DOMAIN escrows
    /\ LET r == refund(escrows[i], sender, now) IN
         /\ escrows' = [escrows EXCEPT ![i] = r.esc]
         /\ last' = Receipt("refund", r.reason)
    /\ UNCHANGED <<now, swap, inflight, htlc>>

\* An account deploys the contract with its own wallet: the deployment reverts in
\* the constructor or creates a contract holding the value sent.
EscrowDeploy(sender, value, _recipient, _hashlock, _timeout) ==
    /\ Len(escrows) < MaxEscrows
    /\ LET r == constructor(sender, value, _recipient, _hashlock, _timeout, now) IN
         IF r.reason = "ok"
           THEN /\ escrows' = Append(escrows, r.esc)
                /\ last' = Receipt("deploy", "ok")
           ELSE /\ last' = Receipt("deploy", r.reason)
                /\ UNCHANGED escrows
    /\ UNCHANGED <<now, swap, inflight, htlc>>

\* ------------------------------------------------ EthEscrowManager (escrow.ts)

\* deployEscrow(recipient, hashlock, timeout, ethAmount) signed by the server's
\* wallet: the deployment either reverts in the constructor or appends a contract.
deployEscrow(recipient, hashlock, timeout, value) ==
    constructor(Wallet, value, recipient, hashlock, timeout, now)

\* ------------------------------------------------- Bitcoin HTLC (btc/htlc.ts)

\* createHTLCScript(params): the compiled redeem script, held by its four pushes
\*   OP_IF OP_SHA256 <hashlock> OP_EQUALVERIFY <recipientPubkey> OP_CHECKSIG
\*   OP_ELSE <locktime> OP_CHECKLOCKTIMEVERIFY OP_DROP <refundPubkey> OP_CHECKSIG OP_ENDIF
createHTLCScript(params) ==
    [hashlock |-> params.hashlock, recipientPubkey |-> params.recipientPubkey,
     locktime |-> params.locktime, refundPubkey |-> params.refundPubkey]

\* bitcoin.payments.p2wsh({redeem: {output: redeemScript}, network}) on testnet:
\* the output script OP_0 <sha256 of the script> and its bech32 address.
p2wsh(redeemScript) ==
    [output |-> <<"OP_0", "sha256", redeemScript>>,
     address |-> <<"tb1q", "sha256", redeemScript>>]

\* createHTLCScript with the locktime counted from the time of the call.
HTLCScriptFromNow(params) ==
    LET redeemScript == createHTLCScript([params EXCEPT !.locktime = now + @]) IN
    [redeemScript |-> redeemScript,
     address |-> p2wsh(redeemScript).address,
     scriptPubKey |-> p2wsh(redeemScript).output]

\* What createHTLCScript returns: { redeemScript, address, scriptPubKey }.
HTLCScript(params) ==
    LET redeemScript == createHTLCScript(params) IN
    [redeemScript |-> redeemScript,
     address |-> p2wsh(redeemScript).address,
     scriptPubKey |-> p2wsh(redeemScript).output]

\* psbt.signInput(0, keyPair): the signature of the key pair.
signInput(keyPair) == "sig(" \o keyPair \o ")"

SequenceFinal == "0xffffffff"

\* const fee = 1000, and the dust limit of if (change > 546).
fee == 1000
DustLimit == 546

\* totalInput += utxo.value, over the utxos from index i on.
RECURSIVE totalInputFrom(_, _)
totalInputFrom(utxos, i) ==
    IF i > Len(utxos) THEN 0 ELSE utxos[i].value + totalInputFrom(utxos, i + 1)

\* The sum of the values of a transaction's outputs from index i on.
RECURSIVE outputAmountFrom(_, _)
outputAmountFrom(outs, i) ==
    IF i > Len(outs) THEN 0 ELSE outs[i].value + outputAmountFrom(outs, i + 1)

\* What a builder leaves when psbt.extractTransaction() throws.
NoTransaction(error) == [error |-> error]

\* buildFundingTx with the change output added for any change above zero.
buildFundingTxNoDustLimit(utxos, htlcAddress, amount, changeAddress, keyPair) ==
    LET totalInput == totalInputFrom(utxos, 1)
        change == totalInput - amount - fee
        outs == IF change > 0
                  THEN <<[value |-> amount, address |-> htlcAddress],
                         [value |-> change, address |-> changeAddress]>>
                  ELSE <<[value |-> amount, address |-> htlcAddress]>> IN
    IF totalInput - outputAmountFrom(outs, 1) < 0
      THEN NoTransaction("Outputs are spending more than Inputs")
      ELSE [locktime |-> 0,
            outs |-> outs,
            ins |-> [i \in DOMAIN utxos |->
                       [hash |-> utxos[i].txid, index |-> utxos[i].vout,
                        sequence |-> SequenceFinal,
                        witness |-> <<signInput(keyPair), keyPair>>]]]

\* buildFundingTx(utxos, htlcAddress, amount, changeAddress, keyPair).  The
\* inputs are added, then the HTLC output, then the change output if the change
\* is above the dust limit; extractTransaction() throws when the outputs spend
\* more than the inputs.
buildFundingTx(utxos, htlcAddress, amount, changeAddress, keyPair) ==
    LET totalInput == totalInputFrom(utxos, 1)
        change == totalInput - amount - fee
        outs == IF change > DustLimit
                  THEN <<[value |-> amount, address |-> htlcAddress],
                         [value |-> change, address |-> changeAddress]>>
                  ELSE <<[value |-> amount, address |-> htlcAddress]>> IN
    IF totalInput - outputAmountFrom(outs, 1) < 0
      THEN NoTransaction("Outputs are spending more than Inputs")
      ELSE [locktime |-> 0,
            outs |-> outs,
            ins |-> [i \in DOMAIN utxos |->
                       [hash |-> utxos[i].txid, index |-> utxos[i].vout,
                        sequence |-> SequenceFinal,
                        witness |-> <<signInput(keyPair), keyPair>>]]]

\* buildRedeemTx with the secret put before the signature.
buildRedeemTxSecretFirst(htlcUtxo, htlcScript, recipientAddress, secret, recipientKeyPair) ==
    [locktime |-> 0,
     outs |-> <<[value |-> htlcUtxo.value - 1000, address |-> recipientAddress]>>,
     ins |-> <<[hash |-> htlcUtxo.txid, index |-> htlcUtxo.vout,
                sequence |-> SequenceFinal,
                witness |-> <<secret, signInput(recipientKeyPair), "01", htlcScript>>]>>]

\* buildRedeemTx(htlcUtxo, htlcScript, recipientAddress, secret, recipientKeyPair)
buildRedeemTx(htlcUtxo, htlcScript, recipientAddress, secret, recipientKeyPair) ==
    [locktime |-> 0,
     outs |-> <<[value |-> htlcUtxo.value - 1000, address |-> recipientAddress]>>,
     ins |-> <<[hash |-> htlcUtxo.txid, index |-> htlcUtxo.vout,
                sequence |-> SequenceFinal,
                witness |-> <<signInput(recipientKeyPair), secret, "01", htlcScript>>]>>]

\* buildRefundTx with the sequence left at its default, the final value.
buildRefundTxFinalSequence(htlcUtxo, htlcScript, refundAddress, refundKeyPair, locktime) ==
    [locktime |-> locktime,
     outs |-> <<[value |-> htlcUtxo.value - 1000, address |-> refundAddress]>>,
     ins |-> <<[hash |-> htlcUtxo.txid, index |-> htlcUtxo.vout,
                sequence |-> SequenceFinal,
                witness |-> <<signInput(refundKeyPair), "00", htlcScript>>]>>]

\* buildRefundTx(htlcUtxo, htlcScript, refundAddress, refundKeyPair, locktime)
buildRefundTx(htlcUtxo, htlcScript, refundAddress, refundKeyPair, locktime) ==
    [locktime |-> locktime,
     outs |-> <<[value |-> htlcUtxo.value - 1000, address |-> refundAddress]>>,
     ins |-> <<[hash |-> htlcUtxo.txid, index |-> htlcUtxo.vout,
                sequence |-> "0xfffffffe",
                witness |-> <<signInput(refundKeyPair), "00", htlcScript>>]>>]

\* Buffer.length of a witness element: a 32-byte value, a 16-byte value, a
\* selector byte, or a signature (DER, about 72 bytes).
byteLength(buf) ==
    IF buf \in Bytes32 THEN 32
    ELSE IF buf = "b16" THEN 16
    ELSE IF buf \in {"01", "00"} THEN 1
    ELSE 72

\* extractSecretFromTx returning the first witness element.
extractSecretFromTxFirstElement(tx) ==
    LET found == {i \in DOMAIN tx.ins : Len(tx.ins[i].witness) >= 4} IN
    IF found = {} THEN NULL
    ELSE tx.ins[CHOOSE i \in found : \A j \in found : i <= j].witness[1]

\* extractSecretFromTx(tx): the second witness element of the first input that
\* has four elements or more and whose second element is 32 bytes long.
extractSecretFromTx(tx) ==
    LET found == {i \in DOMAIN tx.ins :
                    /\ Len(tx.ins[i].witness) >= 4
                    /\ byteLength(tx.ins[i].witness[2]) = 32} IN
    IF found = {} THEN NULL
    ELSE tx.ins[CHOOSE i \in found : \A j \in found : i <= j].witness[2]

\* The script without its two OP_CHECKSIG: any signature passes.
scriptAcceptsAnyKey(script, tx) ==
    LET in == tx.ins[1]
        w == in.witness
        n == Len(w) IN
    /\ n >= 3
    /\ w[n] = script
    /\ IF w[n - 1] = "01"
         THEN /\ n = 4
              /\ sha256(w[n - 2]) = script.hashlock
         ELSE /\ n = 3
              /\ tx.locktime >= script.locktime
              /\ in.sequence # SequenceFinal

\* The script run on a spending input's witness: the last element is the script,
\* the one before it the OP_IF selector.
scriptAccepts(script, tx) ==
    LET in == tx.ins[1]
        w == in.witness
        n == Len(w) IN
    /\ n >= 3
    /\ w[n] = script
    /\ IF w[n - 1] = "01"
         THEN /\ n = 4
              /\ sha256(w[n - 2]) = script.hashlock
              /\ w[n - 3] = signInput(script.recipientPubkey)
         ELSE /\ n = 3
              /\ tx.locktime >= script.locktime
              /\ in.sequence # SequenceFinal
              /\ w[n - 2] = signInput(script.refundPubkey)

\* Chain validation without the transaction's own time-lock.
chainAcceptsNoTimeLock(utxo, tx, t) ==
    /\ utxo.state = "locked"
    /\ scriptAccepts(utxo.script, tx)

\* Chain validation that does not look whether the output is already spent.
chainAcceptsSpent(utxo, tx, t) ==
    /\ tx.ins[1].sequence = SequenceFinal \/ tx.locktime <= t
    /\ scriptAccepts(utxo.script, tx)

\* The chain accepts a spend of the locked output at chain time t: the output is
\* unspent, the transaction's own time-lock has been reached (or is disabled by a
\* final sequence), and the script accepts the witness.
chainAccepts(utxo, tx, t) ==
    /\ utxo.state = "locked"
    /\ tx.ins[1].sequence = SequenceFinal \/ tx.locktime <= t
    /\ scriptAccepts(utxo.script, tx)

\* The locked output as buildRedeemTx / buildRefundTx take it.
htlcUtxo == [value |-> 2000, txid |-> "txid", vout |-> 0]

\* A party broadcasts the redeem transaction it built.
BtcRedeem(keyPair, secret) ==
    /\ htlc.state # "none"
    /\ LET tx == buildRedeemTx(htlcUtxo, htlc.script, keyPair, secret, keyPair) IN
         IF chainAccepts(htlc, tx, now)
           THEN /\ htlc' = [htlc EXCEPT !.state = "redeemed"]
                /\ last' = Receipt("btc-redeem", "ok")
           ELSE /\ last' = Receipt("btc-redeem", "rejected")
                /\ UNCHANGED htlc
    /\ UNCHANGED <<now, swap, escrows, inflight>>

\* A party broadcasts the refund transaction it built.
BtcRefund(keyPair, locktime) ==
    /\ htlc.state # "none"
    /\ LET tx == buildRefundTx(htlcUtxo, htlc.script, keyPair, keyPair, locktime) IN
         IF chainAccepts(htlc, tx, now)
           THEN /\ htlc' = [htlc EXCEPT !.state = "refunded"]
                /\ last' = Receipt("btc-refund", "ok")
           ELSE /\ last' = Receipt("btc-refund", "rejected")
                /\ UNCHANGED htlc
    /\ UNCHANGED <<now, swap, escrows, inflight>>

\* A transaction spending the locked output that its sender wrote by hand.
spendTx(witness, sequence, locktime) ==
    [locktime |-> locktime,
     outs |-> <<[value |-> htlcUtxo.value - 1000, address |-> "any"]>>,
     ins |-> <<[hash |-> htlcUtxo.txid, index |-> htlcUtxo.vout,
                sequence |-> sequence, witness |-> witness]>>]

\* Anyone broadcasts a transaction spending the locked output.
BtcBroadcast(tx) ==
    /\ htlc.state # "none"
    /\ IF chainAccepts(htlc, tx, now)
         THEN /\ htlc' = [htlc EXCEPT !.state =
                            IF tx.ins[1].witness[Len(tx.ins[1].witness) - 1] = "01"
                              THEN "redeemed" ELSE "refunded"]
              /\ last' = Receipt("btc-broadcast", "ok")
         ELSE /\ last' = Receipt("btc-broadcast", "rejected")
              /\ UNCHANGED htlc
    /\ UNCHANGED <<now, swap, escrows, inflight>>

\* A call of a builder: its name, its arguments and what it returned.
Returned(op, args, result) == [op |-> op, result |-> result, args |-> args]

\* A party calls createHTLCScript.
CreateScript(params) ==
    /\ last' = Returned("createHTLCScript", <<params>>, HTLCScript(params))
    /\ UNCHANGED <<now, swap, escrows, inflight, htlc>>

\* A wallet calls buildFundingTx for the lock address.
BuildFunding(utxos, amount) ==
    /\ last' = Returned("buildFundingTx", <<utxos, amount>>,
                        buildFundingTx(utxos, "htlcAddress", amount,
                                       "changeAddress", "kF"))
    /\ UNCHANGED <<now, swap, escrows, inflight, htlc>>

\* A wallet calls buildRedeemTx on the locked output.
BuildRedeem(htlcScript, secret, recipientKeyPair) ==
    /\ last' = Returned("buildRedeemTx", <<htlcScript, secret, recipientKeyPair>>,
                        buildRedeemTx(htlcUtxo, htlcScript, recipientKeyPair,
                                      secret, recipientKeyPair))
    /\ UNCHANGED <<now, swap, escrows, inflight, htlc>>

\* A wallet calls buildRefundTx on the locked output.
BuildRefund(htlcScript, refundKeyPair, locktime) ==
    /\ last' = Returned("buildRefundTx", <<htlcScript, refundKeyPair, locktime>>,
                        buildRefundTx(htlcUtxo, htlcScript, refundKeyPair,
                                      refundKeyPair, locktime))
    /\ UNCHANGED <<now, swap, escrows, inflight, htlc>>

\* The counterparty calls extractSecretFromTx on a transaction it saw.
ExtractSecret(tx) ==
    /\ last' = Returned("extractSecretFromTx", <<tx>>, extractSecretFromTx(tx))
    /\ UNCHANGED <<now, swap, escrows, inflight, htlc>>

\* ------------------------------------------------ the coordinator (server.ts)

Directions == {"btc-to-eth", "eth-to-btc"}

\* INSERT INTO swaps (...): the columns of db/setup.ts with their defaults.
insertSwap(direction, hashlock, secret, btc_amount, eth_amount, btc_pubkey, eth_address, expiration, t) ==
    [id |-> 1, direction |-> direction, hashlock |-> hashlock, secret |-> secret,
     btc_amount |-> btc_amount, eth_amount |-> eth_amount,
     btc_pubkey |-> btc_pubkey, eth_address |-> eth_address,
     expiration |-> expiration,
     btc_funded |-> FALSE, eth_funded |-> FALSE,
     eth_escrow_address |-> NoAddress, btc_redeem_script |-> NoScript,
     btc_txid |-> NULL, secret_revealed |-> FALSE, secret_revealed_at |-> NoTime,
     status |-> "pending", created_at |-> t, updated_at |-> t]

\* POST /swap/create
SwapCreate(direction, btc_amount, eth_amount, eth_address, expiration_hours) ==
    /\ swap = NoSwap
    /\ IF direction \notin Directions
         THEN /\ last' = Receipt("create", "400 Invalid direction")
              /\ UNCHANGED swap
       ELSE IF btc_amount = NULL \/ eth_amount = NULL \/ eth_address = NULL
         THEN /\ last' = Receipt("create", "400 Missing required fields")
              /\ UNCHANGED swap
       ELSE \E secret \in generateSecret :
              /\ swap' = insertSwap(direction, generateHashlock(secret), secret,
                                    btc_amount, eth_amount, NULL, eth_address,
                                    now + expiration_hours, now)
              /\ last' = Receipt("create", "200")
    /\ UNCHANGED <<now, escrows, inflight, htlc>>

\* The UPDATE of fund-btc writing also the recipient key of the script it is given
\* into btc_pubkey.
fundBtcUpdateWithPubkey(row, redeemScript, btc_txid, t) ==
    [row EXCEPT !.btc_funded = TRUE, !.btc_redeem_script = redeemScript,
                !.btc_pubkey = redeemScript.recipientPubkey,
                !.btc_txid = btc_txid, !.status = "funded", !.updated_at = t]

\* UPDATE swaps SET btc_funded = TRUE, btc_redeem_script = ?, btc_txid = ?,
\*   status = 'funded', updated_at = now
fundBtcUpdate(row, redeemScript, btc_txid, t) ==
    [row EXCEPT !.btc_funded = TRUE, !.btc_redeem_script = redeemScript,
                !.btc_txid = btc_txid, !.status = "funded", !.updated_at = t]

\* POST /swap/:id/fund-btc
FundBtc(redeemScript, btc_txid) ==
    /\ IF redeemScript = NoScript \/ btc_txid = NULL
         THEN /\ last' = Receipt("fund-btc", "400 Missing redeemScript or btc_txid")
              /\ UNCHANGED swap
       ELSE IF swap = NoSwap
         THEN /\ last' = Receipt("fund-btc", "404 Swap not found")
              /\ UNCHANGED swap
       ELSE /\ swap' = fundBtcUpdate(swap, redeemScript, btc_txid, now)
            /\ last' = Receipt("fund-btc", "200")
    /\ UNCHANGED <<now, escrows, inflight, htlc>>

\* A request suspended on its chain call, with what it holds: the escrow address
\* and the status of the row its SELECT returned, and the secret of its body.
Request(op, escrow, secret) ==
    [op |-> op, escrow |-> escrow, secret |-> secret, status |-> swap.status]

\* UPDATE swaps SET eth_funded = TRUE, eth_escrow_address = ?, status = 'funded',
\*   updated_at = now
fundEthUpdate(row, address, t) ==
    [row EXCEPT !.eth_funded = TRUE, !.eth_escrow_address = address,
                !.status = "funded", !.updated_at = t]

\* POST /swap/:id/fund-eth, up to the await of deployEscrow
FundEthBegin ==
    /\ IF swap = NoSwap
         THEN /\ last' = Receipt("fund-eth", "404 Swap not found")
              /\ UNCHANGED inflight
       ELSE /\ Cardinality(inflight) < MaxInflight
            /\ Len(escrows) < MaxEscrows
            /\ inflight' = inflight \cup {Request("fund-eth", NoAddress, NULL)}
            /\ UNCHANGED last
    /\ UNCHANGED <<now, swap, escrows, htlc>>

\* POST /swap/:id/fund-eth, from the deployment to the response.  The columns the
\* deployment uses are written by no UPDATE, so they are the values the SELECT read.
FundEthFinish(req, networkOk) ==
    /\ req \in inflight
    /\ req.op = "fund-eth"
    /\ inflight' = inflight \ {req}
    /\ LET r == deployEscrow(swap.eth_address, swap.hashlock, swap.expiration,
                             parseEther(swap.eth_amount)) IN
         IF networkOk /\ r.reason = "ok"
           THEN /\ escrows' = Append(escrows, r.esc)
                /\ swap' = fundEthUpdate(swap, Len(escrows) + 1, now)
                /\ last' = Receipt("fund-eth", "200")
           ELSE /\ last' = Receipt("fund-eth", "500 Internal server error")
                /\ UNCHANGED <<swap, escrows>>
    /\ UNCHANGED <<now, htlc>>

\* The verification with the comparison of the hashes left out: only the
\* secret's format is looked at.
verifySecretFormatOnly(secret, row) == secret.enc = row.secret.enc

\* Verify secret: generateHashlock(secret) !== swap.hashlock
verifySecret(secret, row) == generateHashlock(secret) = row.hashlock

\* The UPDATE of submit-secret and claim-eth writing the status alone.
secretRevealedUpdateStatusOnly(row, t) ==
    [row EXCEPT !.status = "completed", !.updated_at = t]

\* UPDATE swaps SET secret_revealed = TRUE, secret_revealed_at = now,
\*   status = 'completed', updated_at = now   (submit-secret and claim-eth)
secretRevealedUpdate(row, t) ==
    [row EXCEPT !.secret_revealed = TRUE, !.secret_revealed_at = t,
                !.status = "completed", !.updated_at = t]

\* POST /swap/:id/submit-secret
SubmitSecret(secret) ==
    /\ IF secret = MissingSecret
         THEN /\ last' = Receipt("submit-secret", "400 Missing secret")
              /\ UNCHANGED swap
       ELSE IF swap = NoSwap
         THEN /\ last' = Receipt("submit-secret", "404 Swap not found")
              /\ UNCHANGED swap
       ELSE IF ~verifySecret(secret, swap)
         THEN /\ last' = Receipt("submit-secret", "400 Invalid secret")
              /\ UNCHANGED swap
       ELSE /\ swap' = secretRevealedUpdate(swap, now)
            /\ last' = Receipt("submit-secret", "200")
    /\ UNCHANGED <<now, escrows, inflight, htlc>>

\* POST /swap/:id/claim-eth, up to the await of contract.claim.  The conversion of
\* the secret to bytes32 throws before anything is sent.
ClaimEthBegin(secret) ==
    /\ IF swap = NoSwap
         THEN /\ last' = Receipt("claim-eth", "404 Swap not found")
              /\ UNCHANGED inflight
       ELSE IF swap.eth_escrow_address = NoAddress
         THEN /\ last' = Receipt("claim-eth", "400 ETH escrow not deployed")
              /\ UNCHANGED inflight
       ELSE IF toBytes32(secret) = Throws
         THEN /\ last' = Receipt("claim-eth", "500 Internal server error")
              /\ UNCHANGED inflight
       ELSE /\ Cardinality(inflight) < MaxInflight
            /\ inflight' = inflight \cup
                 {Request("claim-eth", swap.eth_escrow_address, toBytes32(secret))}
            /\ UNCHANGED last
    /\ UNCHANGED <<now, swap, escrows, htlc>>

\* POST /swap/:id/claim-eth, from the claim transaction to the response
ClaimEthFinish(req, networkOk) ==
    /\ req \in inflight
    /\ req.op = "claim-eth"
    /\ inflight' = inflight \ {req}
    /\ LET r == claim(escrows[req.escrow], Wallet, req.secret) IN
         IF networkOk /\ r.reason = "ok"
           THEN /\ escrows' = [escrows EXCEPT ![req.escrow] = r.esc]
                /\ swap' = secretRevealedUpdate(swap, now)
                /\ last' = Receipt("claim-eth", "200")
           ELSE /\ last' = Receipt("claim-eth", "500 Internal server error")
                /\ UNCHANGED <<swap, escrows>>
    /\ UNCHANGED <<now, htlc>>

\* Check if timeout has passed: currentTime < swap.expiration
timeoutReached(row, t) == ~(t < row.expiration)

\* UPDATE swaps SET status = 'refunded', updated_at = now
refundEthUpdate(row, t) ==
    [row EXCEPT !.status = "refunded", !.updated_at = t]

\* POST /swap/:id/refund-eth, up to the await of contract.refund
RefundEthBegin ==
    /\ IF swap = NoSwap
         THEN /\ last' = Receipt("refund-eth", "404 Swap not found")
              /\ UNCHANGED inflight
       ELSE IF swap.eth_escrow_address = NoAddress
         THEN /\ last' = Receipt("refund-eth", "400 ETH escrow not deployed")
              /\ UNCHANGED inflight
       ELSE IF ~timeoutReached(swap, now)
         THEN /\ last' = Receipt("refund-eth", "400 Timeout not yet reached")
              /\ UNCHANGED inflight
       ELSE /\ Cardinality(inflight) < MaxInflight
            /\ inflight' = inflight \cup
                 {Request("refund-eth", swap.eth_escrow_address, NULL)}
            /\ UNCHANGED last
    /\ UNCHANGED <<now, swap, escrows, htlc>>

\* refund-eth with the UPDATE moved before the outcome of the chain call is known.
RefundEthFinishOptimistic(req, networkOk) ==
    /\ req \in inflight
    /\ req.op = "refund-eth"
    /\ inflight' = inflight \ {req}
    /\ swap' = refundEthUpdate(swap, now)
    /\ LET r == refund(escrows[req.escrow], Wallet, now) IN
         IF networkOk /\ r.reason = "ok"
           THEN /\ escrows' = [escrows EXCEPT ![req.escrow] = r.esc]
                /\ last' = Receipt("refund-eth", "200")
           ELSE /\ last' = Receipt("refund-eth", "500 Internal server error")
                /\ UNCHANGED escrows
    /\ UNCHANGED <<now, htlc>>

\* POST /swap/:id/refund-eth, from the refund transaction to the response
RefundEthFinish(req, networkOk) ==
    /\ req \in inflight
    /\ req.op = "refund-eth"
    /\ inflight' = inflight \ {req}
    /\ LET r == refund(escrows[req.escrow], Wallet, now) IN
         IF networkOk /\ r.reason = "ok"
           THEN /\ escrows' = [escrows EXCEPT ![req.escrow] = r.esc]
                /\ swap' = refundEthUpdate(swap, now)
                /\ last' = Receipt("refund-eth", "200")
           ELSE /\ last' = Receipt("refund-eth", "500 Internal server error")
                /\ UNCHANGED <<swap, escrows>>
    /\ UNCHANGED <<now, htlc>>

\* An HTTP response with a JSON body.
Response(op, result, body) == [op |-> op, result |-> result, body |-> body]

\* The row without its secret column: delete swap.secret / { secret, ...sanitized }
withoutSecret(row) == [f \in DOMAIN row \ {"secret"} |-> row[f]]

\* The sanitising of the reads left out: the row is sent as it was selected.
sanitizeNothing(row) == row

\* What GET /swap/:id and GET /swaps send for a row: the secret only once it is
\* revealed.
sanitize(row) == IF ~row.secret_revealed THEN withoutSecret(row) ELSE row

\* SELECT * FROM swaps WHERE id = ?, sanitised
getSwap(row) == sanitize(row)

\* SELECT * FROM swaps WHERE 1=1 [AND status = ?] [AND direction = ?], each row
\* sanitised; a filter that is NULL is not in the query.
getSwaps(rows, status, direction) ==
    LET selected == SelectSeq(rows, LAMBDA row :
                      /\ status = NULL \/ row.status = status
                      /\ direction = NULL \/ row.direction = direction) IN
    [i \in DOMAIN selected |-> sanitize(selected[i])]

\* The body of the response to POST /swap/create: the secret is in it only for
\* direction eth-to-btc (an undefined field is not serialised).
createResponse(row) ==
    IF row.direction = "eth-to-btc"
      THEN [hashlock |-> row.hashlock, secret |-> row.secret,
            direction |-> row.direction, expiration |-> row.expiration,
            swap_id |-> row.id]
      ELSE [hashlock |-> row.hashlock,
            direction |-> row.direction, expiration |-> row.expiration,
            swap_id |-> row.id]

\* The secrets a response body shows.
secretsIn(body) == IF "secret" \in DOMAIN body THEN {body.secret} ELSE {}

\* The secrets the coordinator has sent to its callers for the swap: in the
\* response to create and in the reads of the row.
DisclosedSecrets ==
    IF swap = NoSwap THEN {}
    ELSE secretsIn(createResponse(swap)) \cup secretsIn(getSwap(swap))

\* The rows of table swaps.
swaps == IF swap = NoSwap THEN <<>> ELSE <<swap>>

\* GET /swap/:id
GetSwap ==
    /\ IF swap = NoSwap
         THEN last' = Receipt("get-swap", "404 Swap not found")
         ELSE last' = Response("get-swap", "200", getSwap(swap))
    /\ UNCHANGED <<now, swap, escrows, inflight, htlc>>

\* GET /swaps?status=&direction=
GetSwaps(status, direction) ==
    /\ last' = Response("get-swaps", "200", getSwaps(swaps, status, direction))
    /\ UNCHANGED <<now, swap, escrows, inflight, htlc>>

\* The clock advances by one hour.
Tick ==
    /\ swap # NoSwap \/ escrows # <<>>
    /\ now < MaxTime
    /\ now' = now + 1
    /\ UNCHANGED <<swap, escrows, inflight, htlc, last>>

\* ------------------------------------------------------ the specification

\* Request bodies and callers.
CreateRequest(direction, eth_amount, eth_address, expiration_hours) ==
    [direction |-> direction, btc_amount |-> "1", eth_amount |-> eth_amount,
     eth_address |-> eth_address, expiration_hours |-> expiration_hours]

\* The bodies sent to /swap/create: both directions and both recipients with an
\* escrow that can be deployed, an expiration already past, a zero amount, a
\* direction that is none of the two, a missing amount.
CreateRequests ==
    {CreateRequest("btc-to-eth", "1", "W", 1),
     CreateRequest("eth-to-btc", "1", "A", 1),
     CreateRequest("btc-to-eth", "1", "A", -1),
     CreateRequest("eth-to-btc", "0", "W", 1),
     CreateRequest("sideways", "1", "A", 1),
     CreateRequest("btc-to-eth", NULL, "A", 1)}
Hashlocks == {sha256(b) : b \in Bytes32}
RedeemScripts ==
    {createHTLCScript([hashlock |-> h, recipientPubkey |-> "kR",
                       refundPubkey |-> "kF", locktime |-> 2]) : h \in Hashlocks}

Init ==
    /\ now = 1
    /\ swap = NoSwap
    /\ escrows = <<>>
    /\ inflight = {}
    /\ htlc = [state |-> "none"]
    /\ last = Receipt("none", "none")

Next ==
    \/ \E b \in CreateRequests :
         SwapCreate(b.direction, b.btc_amount, b.eth_amount, b.eth_address,
                    b.expiration_hours)
    \/ \E rs \in RedeemScripts \cup {NoScript} : FundBtc(rs, "txid")
    \/ FundEthBegin
    \/ \E req \in inflight, ok \in BOOLEAN : FundEthFinish(req, ok)
    \/ \E s \in SecretStrings \cup {MissingSecret} : SubmitSecret(s)
    \/ \E s \in SecretStrings \cup {MissingSecret} : ClaimEthBegin(s)
    \/ \E req \in inflight, ok \in BOOLEAN : ClaimEthFinish(req, ok)
    \/ RefundEthBegin
    \/ \E req \in inflight, ok \in BOOLEAN : RefundEthFinish(req, ok)
    \/ \E i \in 1..MaxEscrows, c \in Accounts, s \in Bytes32 : EscrowClaim(i, c, s)
    \/ \E i \in 1..MaxEscrows, c \in Accounts : EscrowRefund(i, c)
    \/ Tick

Spec == Init /\ [][Next]_vars

\* ------------------------------------- both legs locked, the parties acting

BtcKeys == {"kR", "kF", "kX"}

\* A swap created at time 1 whose escrow was deployed by fund-eth and whose HTLC
\* output was locked under the swap's hashlock and expiration.
InitChain ==
    /\ now = 1
    /\ inflight = {}
    /\ last = Receipt("none", "none")
    /\ \E secret \in generateSecret, a \in Accounts, h \in {1, 2} :
         LET row == insertSwap("btc-to-eth", generateHashlock(secret), secret,
                               "1", "1", NULL, a, now + h, now)
             d == deployEscrow(row.eth_address, row.hashlock, row.expiration,
                               parseEther(row.eth_amount))
             script == createHTLCScript([hashlock |-> row.hashlock,
                                         recipientPubkey |-> "kR",
                                         refundPubkey |-> "kF",
                                         locktime |-> row.expiration]) IN
         /\ escrows = <<d.esc>>
         /\ swap = fundEthUpdate(fundBtcUpdate(row, script, "txid", now), 1, now)
         /\ htlc = [state |-> "locked", script |-> script]

\* The spends of the locked output a sender can write by hand: a witness of
\* four or of three elements ending in the script, signed with any key, with
\* either selector, any sequence and any time-lock.
Selectors == {"01", "00"}
SequenceValues == {SequenceFinal, "0xfffffffe"}
HandWritten4 ==
    {spendTx(<<signInput(k), s, sel, htlc.script>>, q, lt) :
       k \in BtcKeys, s \in Bytes32, sel \in Selectors,
       q \in SequenceValues, lt \in 0..MaxTime}
HandWritten3 ==
    {spendTx(<<signInput(k), sel, htlc.script>>, q, lt) :
       k \in BtcKeys, sel \in Selectors, q \in SequenceValues, lt \in 0..MaxTime}

NextChain ==
    \/ \E i \in 1..MaxEscrows, c \in Accounts, s \in Bytes32 : EscrowClaim(i, c, s)
    \/ \E i \in 1..MaxEscrows, c \in Accounts : EscrowRefund(i, c)
    \/ \E k \in BtcKeys, s \in Bytes32 : BtcRedeem(k, s)
    \/ \E k \in BtcKeys, lt \in 0..MaxTime : BtcRefund(k, lt)
    \/ \E tx \in HandWritten4 : BtcBroadcast(tx)
    \/ \E tx \in HandWritten3 : BtcBroadcast(tx)
    \/ Tick

SpecChain == InitChain /\ [][NextChain]_vars

\* ------------------- both legs locked, the parties and the coordinator acting

\* The parties act on both chains while the coordinator serves submit-secret and
\* claim-eth for the swap.
NextMirror ==
    \/ NextChain
    \/ \E s \in SecretStrings \cup {MissingSecret} : SubmitSecret(s)
    \/ \E s \in SecretStrings \cup {MissingSecret} : ClaimEthBegin(s)
    \/ \E req \in inflight, ok \in BOOLEAN : ClaimEthFinish(req, ok)

SpecMirror == InitChain /\ [][NextMirror]_vars

\* ------------------------------------- the coordinator's reads of the table

\* The filters sent to GET /swaps: none, a status, a direction.
StatusFilters == {NULL, "pending", "completed"}
DirectionFilters == {NULL, "btc-to-eth"}

\* A swap is created, marked funded and its secret submitted while the row is
\* read.
NextRead ==
    \/ \E b \in CreateRequests :
         SwapCreate(b.direction, b.btc_amount, b.eth_amount, b.eth_address,
                    b.expiration_hours)
    \/ \E rs \in RedeemScripts \cup {NoScript} : FundBtc(rs, "txid")
    \/ \E s \in SecretStrings \cup {MissingSecret} : SubmitSecret(s)
    \/ GetSwap
    \/ \E st \in StatusFilters, dir \in DirectionFilters : GetSwaps(st, dir)
    \/ Tick

SpecRead == Init /\ [][NextRead]_vars

\* ------------------------------------------- the Bitcoin builders, called alone

\* The utxos argument of buildFundingTx: up to MaxUtxos outputs, with values
\* that put the total below the amount, between the amount and the amount plus
\* the fee, at the dust limit and above it.
UtxoValues == {500, 1000, 1546, 1547, 2046}
Utxos(values) ==
    [i \in DOMAIN values |-> [value |-> values[i], txid |-> "prev", vout |-> i]]
ValueLists == UNION {[1..n -> UtxoValues] : n \in 0..MaxUtxos}
Amounts == {1000, 2000}

\* The secret argument of buildRedeemTx: 32 bytes, or a 16-byte value.
BuilderSecrets == Bytes32 \cup {"b16"}

\* The params of createHTLCScript.
HTLCParams ==
    [hashlock : Hashlocks, recipientPubkey : {"kR", "kX"}, locktime : 1..MaxTime,
     refundPubkey : {"kF", "kX"}]

InitBtc ==
    /\ now = 1
    /\ swap = NoSwap
    /\ escrows = <<>>
    /\ inflight = {}
    /\ htlc = [state |-> "none"]
    /\ last = Receipt("none", "none")

NextBtc ==
    \/ \E params \in HTLCParams : CreateScript(params)
    \/ \E values \in ValueLists, amount \in Amounts :
         BuildFunding(Utxos(values), amount)
    \/ \E script \in RedeemScripts, s \in BuilderSecrets, k \in BtcKeys :
         BuildRedeem(script, s, k)
    \/ \E script \in RedeemScripts, k \in BtcKeys, lt \in 0..MaxTime :
         BuildRefund(script, k, lt)
    \/ \E script \in RedeemScripts, s \in BuilderSecrets, k \in BtcKeys :
         ExtractSecret(buildRedeemTx(htlcUtxo, script, k, s, k))
    \/ \E script \in RedeemScripts, k \in BtcKeys, lt \in 0..MaxTime :
         ExtractSecret(buildRefundTx(htlcUtxo, script, k, k, lt))

SpecBtc == InitBtc /\ [][NextBtc]_vars

\* -------------------------- the contract alone, deployed and called by accounts

\* A deployment transaction: its sender, msg.value and constructor arguments.
Deployment(sender, value, _recipient, _hashlock, _timeout) ==
    [sender |-> sender, value |-> value, recipient |-> _recipient,
     hashlock |-> _hashlock, timeout |-> _timeout]

\* The deployments sent: three that can create a contract (the server's wallet
\* for another account, an account for the server's wallet with another value, an
\* account for itself with a later timeout), and one for each require of the
\* constructor: no value, address(0) as recipient, a timeout that is not in the
\* future at any time.
Deployments ==
    {Deployment("W", 1, "A", sha256("s1"), 2),
     Deployment("A", 2, "W", sha256("s2"), 2),
     Deployment("A", 1, "A", sha256("s1"), 3),
     Deployment("W", 0, "A", sha256("s1"), 2),
     Deployment("W", 1, ZeroAddress, sha256("s1"), 2),
     Deployment("W", 1, "A", sha256("s1"), 1)}

InitEscrow ==
    /\ now = 1
    /\ swap = NoSwap
    /\ escrows = <<>>
    /\ inflight = {}
    /\ htlc = [state |-> "none"]
    /\ last = Receipt("none", "none")

NextEscrow ==
    \/ \E d \in Deployments :
         EscrowDeploy(d.sender, d.value, d.recipient, d.hashlock, d.timeout)
    \/ \E i \in 1..MaxEscrows, c \in Accounts, s \in Bytes32 : EscrowClaim(i, c, s)
    \/ \E i \in 1..MaxEscrows, c \in Accounts : EscrowRefund(i, c)
    \/ Tick

SpecEscrow == InitEscrow /\ [][NextEscrow]_vars

\* The deployer of escrow i calls refund.
DeployerRefund(i) ==
    /\ i \in DOMAIN escrows
    /\ EscrowRefund(i, escrows[i].deployer)

\* The contract with the chain's clock advancing and every deployer calling
\* refund again and again.  Nothing in the code calls refund by itself (the
\* contract has no timer, the server none either): a deployer that keeps calling
\* is the most the code can count on.
SpecEscrowFair ==
    /\ SpecEscrow
    /\ WF_vars(Tick)
    /\ \A i \in 1..MaxEscrows : WF_vars(DeployerRefund(i))

\* ------------------------------------------------------------ the claims

\* The escrow the swap row records.
SwapEscrow == escrows[swap.eth_escrow_address]

\* C1: with the HTLC output and the escrow both locked under the swap's hashlock
\* and expiration, no state has one leg taken with the secret and the other leg
\* refunded: the escrow claimed and the output refunded, or the escrow refunded
\* and the output redeemed.
C1_BothLegsResolveTheSameWay ==
    ~ \/ SwapEscrow.claimed /\ htlc.state = "refunded"
      \/ SwapEscrow.refunded /\ htlc.state = "redeemed"

\* C2: a swap's status is funded only when btc_funded and eth_funded are both set.
C2_FundedOnlyWhenBothChainsFunded ==
    swap # NoSwap /\ swap.status = "funded" => swap.btc_funded /\ swap.eth_funded

\* C3: a new swap is pending, and every change of a swap's status follows one of
\* the edges pending->funded, funded->completed, pending->expired,
\* funded->expired, funded->refunded (so completed, expired and refunded are
\* never left).
C3_StatusFollowsTheEdges ==
    [][IF swap = NoSwap
         THEN swap' # NoSwap => swap'.status = "pending"
         ELSE swap'.status # swap.status =>
                <<swap.status, swap'.status>> \in
                  {<<"pending", "funded">>, <<"funded", "completed">>,
                   <<"pending", "expired">>, <<"funded", "expired">>,
                   <<"funded", "refunded">>}]_vars

\* C4: no step takes a completed swap to refunded, and no step takes a refunded
\* or expired swap to completed.
C4_CompletedAndRefundedExclusive ==
    [][swap # NoSwap =>
         /\ swap.status = "completed" => swap'.status # "refunded"
         /\ swap.status \in {"refunded", "expired"} => swap'.status # "completed"]_vars

\* C5: refund-eth writes status refunded only when the expiration has passed and
\* the status is funded; a refund-eth that is refused leaves the row unchanged.
C5_RefundOnlyWhenFundedAndExpired ==
    [][swap # NoSwap =>
         /\ swap'.status = "refunded" /\ swap' # swap =>
              now >= swap.expiration /\ swap.status = "funded"
         /\ last'.op = "refund-eth" /\ last'.result # "200" => swap' = swap]_vars

\* C6: submit-secret with a secret whose hash differs from the swap's hashlock
\* answers 400 Invalid secret and leaves every column of the row unchanged.
C6_WrongSecretRejectedUnchanged ==
    [][\A s \in SecretStrings :
         swap # NoSwap /\ generateHashlock(s) # swap.hashlock /\ SubmitSecret(s) =>
           swap' = swap /\ last'.result = "400 Invalid secret"]_vars

\* C6 witness: a wrong secret was submitted to an existing swap and refused.
C6_Witness ==
    /\ swap # NoSwap
    /\ last = Receipt("submit-secret", "400 Invalid secret")

\* C7: right after a successful submit-secret, a second submit-secret with the
\* matching secret leaves the row equal in every column.
C7_SecondRevealIsNoOp ==
    [][\A s \in SecretStrings :
         /\ last = Receipt("submit-secret", "200")
         /\ verifySecret(s, swap)
         /\ SubmitSecret(s)
         => swap' = swap]_vars

\* C8: for a swap still pending, with no leg funded, whose expiration has passed,
\* the coordinator has a step that gives it status expired.
C8_ExpiredReachableFromPending ==
    (/\ swap # NoSwap
     /\ swap.status = "pending"
     /\ ~swap.btc_funded /\ ~swap.eth_funded
     /\ now > swap.expiration)
    => ENABLED (Next /\ swap'.status = "expired")

\* C9: no escrow ever has claimed and refunded both true, and no step resets a
\* flag that is true.
C9_FlagsExclusiveAndMonotonic ==
    /\ [](\A i \in DOMAIN escrows : ~(escrows[i].claimed /\ escrows[i].refunded))
    /\ [][\A i \in DOMAIN escrows :
            /\ escrows[i].claimed => escrows'[i].claimed
            /\ escrows[i].refunded => escrows'[i].refunded]_vars

\* C9 witness: a refund was attempted on a claimed escrow, and one escrow is
\* claimed while another is refunded.
C9_Witness ==
    /\ last = Receipt("refund", "Already claimed")
    /\ \E i, j \in DOMAIN escrows : escrows[i].claimed /\ escrows[j].refunded

\* C10: a claim call succeeds only from the recipient, with both flags false and
\* a secret that hashes to the hashlock; it then sets claimed, pays the locked
\* amount to the recipient and publishes the secret it was called with.  A claim
\* by another caller or with another secret does not set claimed.
C10_ClaimOnlyByRecipientWithSecret ==
    [][\A i \in DOMAIN escrows, c \in Accounts, s \in Bytes32 :
         EscrowClaim(i, c, s) =>
           LET e == escrows[i]
               f == escrows'[i] IN
           IF last'.result = "ok"
             THEN /\ c = e.recipient /\ ~e.claimed /\ ~e.refunded
                  /\ sha256(s) = e.hashlock
                  /\ f.claimed /\ ~f.refunded
                  /\ f.SecretRevealed = s
                  /\ f.paidRecipient = e.paidRecipient + e.amount
                  /\ f.paidDeployer = e.paidDeployer
                  /\ f.balance = e.balance - e.amount
             ELSE f = e
       ]_vars

\* C10 witness: a claim by the recipient succeeded and paid the recipient.
C10_Witness ==
    /\ last = Receipt("claim", "ok")
    /\ \E i \in DOMAIN escrows :
         /\ escrows[i].claimed
         /\ escrows[i].SecretRevealed \in Bytes32
         /\ escrows[i].paidRecipient = escrows[i].amount
         /\ escrows[i].balance = 0

\* An escrow with neither flag set.
Open(e) == ~e.claimed /\ ~e.refunded

\* C11: at any chain time, the timeout reached or not, a claim by the recipient
\* with a secret that hashes to the hashlock succeeds on an escrow with neither
\* flag set; and once the timeout is reached, such an escrow accepts both the
\* recipient's claim and the deployer's refund.
C11_ClaimDoesNotDependOnTimeout ==
    /\ [][\A i \in DOMAIN escrows, s \in Bytes32 :
            LET e == escrows[i] IN
            Open(e) /\ sha256(s) = e.hashlock /\ EscrowClaim(i, e.recipient, s) =>
              last'.result = "ok" /\ escrows'[i].claimed]_vars
    /\ [](\A i \in DOMAIN escrows :
            LET e == escrows[i] IN
            Open(e) /\ now >= e.timeout =>
              /\ \E s \in Bytes32 : claim(e, e.recipient, s).reason = "ok"
              /\ refund(e, e.deployer, now).reason = "ok")

\* C11 witness: a claim succeeded after the timeout.  The last receipt is a
\* successful claim, one escrow only is claimed, and an escrow whose timeout is
\* not earlier was refunded before that claim (a refund writes the receipt too).
C11_Witness ==
    /\ last = Receipt("claim", "ok")
    /\ \E i, j \in DOMAIN escrows :
         /\ escrows[i].claimed /\ now >= escrows[i].timeout
         /\ \A k \in DOMAIN escrows : escrows[k].claimed => k = i
         /\ escrows[j].refunded /\ escrows[j].timeout >= escrows[i].timeout

\* C12: a refund call succeeds only from the deployer, at a chain time >= timeout,
\* with both flags false; it then sets refunded and pays the locked amount back to
\* the deployer.  Any other refund call changes nothing; none succeeds before the
\* timeout.
C12_RefundOnlyByDeployerAfterTimeout ==
    [][\A i \in DOMAIN escrows, c \in Accounts :
         EscrowRefund(i, c) =>
           LET e == escrows[i]
               f == escrows'[i] IN
           /\ now < e.timeout => last'.result # "ok"
           /\ IF last'.result = "ok"
                THEN /\ c = e.deployer /\ now >= e.timeout /\ Open(e)
                     /\ f.refunded /\ ~f.claimed
                     /\ f.paidDeployer = e.paidDeployer + e.amount
                     /\ f.paidRecipient = e.paidRecipient
                     /\ f.balance = e.balance - e.amount
                ELSE f = e
       ]_vars

\* C12 witness: a refund by the deployer succeeded and paid the deployer.
C12_Witness ==
    /\ last = Receipt("refund", "ok")
    /\ \E i \in DOMAIN escrows :
         /\ escrows[i].refunded
         /\ now >= escrows[i].timeout
         /\ escrows[i].paidDeployer = escrows[i].amount
         /\ escrows[i].balance = 0

\* The reasons of the notClaimed and notRefunded modifiers.
AlreadySettled == {"Already claimed", "Already refunded"}

C14_WrongSecretThenRightSecret ==
    [][\A i \in DOMAIN escrows, s \in Bytes32 :
         LET e == escrows[i] IN
         Open(e) /\ sha256(s) # e.hashlock /\ EscrowClaim(i, e.recipient, s) =>
           /\ last'.result = "Invalid secret"
           /\ escrows'[i] = e
           /\ \E s2 \in Bytes32 :
                LET g == claim(escrows'[i], e.recipient, s2) IN
                /\ g.reason = "ok" /\ g.esc.claimed
                /\ \A c \in Accounts : refund(g.esc, c, now).reason # "ok"
                /\ refund(g.esc, e.deployer, e.timeout).reason = "Already claimed"
       ]_vars

\* C14 witness: the recipient's claim with a wrong secret was refused and the
\* escrow still holds the value.
C14_Witness ==
    /\ last = Receipt("claim", "Invalid secret")
    /\ \E i \in DOMAIN escrows :
         Open(escrows[i]) /\ escrows[i].balance = escrows[i].amount

\* C15: a deployment creates an escrow only if it sends a value > 0, names a
\* recipient other than address(0) and a timeout greater than the chain time;
\* otherwise it reverts and no escrow exists that did not before.  A created
\* escrow has both flags false and amount (and balance) equal to the value sent.
C15_OpenRequiresValueRecipientTimeout ==
    [][\A d \in Deployments :
         EscrowDeploy(d.sender, d.value, d.recipient, d.hashlock, d.timeout) =>
           IF d.value > 0 /\ d.recipient # ZeroAddress /\ d.timeout > now
             THEN /\ last'.result = "ok"
                  /\ Len(escrows') = Len(escrows) + 1
                  /\ SubSeq(escrows', 1, Len(escrows)) = escrows
                  /\ LET f == escrows'[Len(escrows')] IN
                       /\ Open(f)
                       /\ f.amount = d.value /\ f.balance = d.value
                       /\ f.deployer = d.sender /\ f.recipient = d.recipient
                       /\ f.hashlock = d.hashlock /\ f.timeout = d.timeout
             ELSE last'.result # "ok" /\ escrows' = escrows
       ]_vars

\* C15 witness: a deployment created an escrow that holds the value sent.
C15_Witness ==
    /\ last = Receipt("deploy", "ok")
    /\ escrows # <<>>
    /\ Open(escrows[Len(escrows)])
    /\ escrows[Len(escrows)].balance = 2

\* C16: the hashlock the coordinator stores for the secret it generated is the
\* value EthEscrowManager.generateHashlock computes for that secret, the bytes
\* EthEscrowManager.claim sends for that secret pass the contract's sha256 check
\* against the stored hashlock, and so do the bytes claim sends for any secret
\* the coordinator's verification accepts.
C16_OneHashOneEncoding ==
    swap # NoSwap =>
      /\ swap.hashlock = EthEscrowManager_generateHashlock(swap.secret)
      /\ \A s \in SecretStrings :
           verifySecret(s, swap) =>
             toBytes32(s) # Throws /\ sha256(toBytes32(s)) = swap.hashlock

\* C17: submit-secret on a swap accepts a secret exactly when it is the secret
\* the hashlock was computed from: the secret itself verifies, and every other
\* secret is refused.
C17_VerifySoundAndComplete ==
    [][\A s \in SecretStrings :
         swap # NoSwap /\ SubmitSecret(s) =>
           (last'.result = "200" <=> s = swap.secret)]_vars

\* C18: submit-secret with a secret that is not 32 bytes (64 hex digits) long is
\* answered 400 Invalid secret and leaves the row unchanged.
C18_WrongLengthRejected ==
    [][\A s \in SecretStrings :
         swap # NoSwap /\ strLength(s) # strLength(swap.secret) /\ SubmitSecret(s) =>
           last'.result = "400 Invalid secret" /\ swap' = swap]_vars

\* C19: the swap row never goes from completed to refunded or from refunded to
\* completed, and a request that was suspended on its chain call writes the row
\* only if the status is still the one it read before the call.
C19_WritesSerialized ==
    [][/\ swap # NoSwap =>
            /\ ~(swap.status = "completed" /\ swap'.status = "refunded")
            /\ ~(swap.status = "refunded" /\ swap'.status = "completed")
       /\ \A req \in inflight :
            inflight' = inflight \ {req} /\ swap' # swap => req.status = swap.status
      ]_vars

\* C20: when the chain call of fund-eth, claim-eth or refund-eth fails (the
\* request ends and no contract was deployed or changed), the response is an
\* error and the row is unchanged.
C20_ChainFailureLeavesRowUnchanged ==
    [][(\E req \in inflight : inflight' = inflight \ {req}) /\ escrows' = escrows =>
         /\ last'.op \in {"fund-eth", "claim-eth", "refund-eth"}
         /\ last'.result = "500 Internal server error"
         /\ swap' = swap]_vars

\* C20 witness: the refund of a funded swap's escrow failed on the chain and
\* refund-eth answered with an error; the row is still funded.
C20_Witness ==
    /\ last = Receipt("refund-eth", "500 Internal server error")
    /\ inflight = {}
    /\ swap.status = "funded"
    /\ now >= swap.expiration
    /\ Open(SwapEscrow)

\* C21: whenever the swap's status is completed, a claim with the secret has
\* landed on a chain for it: its escrow is claimed, or its HTLC output is
\* redeemed.
C21_CompletedMirrorsChain ==
    swap # NoSwap /\ swap.status = "completed" =>
      \/ swap.eth_escrow_address # NoAddress /\ SwapEscrow.claimed
      \/ htlc.state = "redeemed"

\* C22: the escrow the row records has the swap's hashlock and its expiration as
\* timeout, and the redeem script the row records commits to the swap's hashlock.
C22_ArtifactsKeyedByHashlock ==
    swap # NoSwap =>
      /\ swap.eth_escrow_address # NoAddress =>
           /\ SwapEscrow.hashlock = swap.hashlock
           /\ SwapEscrow.timeout = swap.expiration
      /\ swap.btc_redeem_script # NoScript =>
           swap.btc_redeem_script.hashlock = swap.hashlock

\* C23: every transaction a call of buildFundingTx has returned has one output
\* to the lock address, of value amount, as its first output; if the remainder (total
\* input - amount - 1000) is above 546 it has a second output, the change, equal
\* to the remainder, and pays a fee of 1000; otherwise it has no other output and
\* the fee it pays is 1000 plus the remainder.  Total input = amount + change +
\* fee in both cases.
C23_FundingConservesValue ==
    last.op = "buildFundingTx" =>
      LET utxos == last.args[1]
          amount == last.args[2]
          tx == last.result
          total == totalInputFrom(utxos, 1)
          remainder == total - amount - 1000 IN
      "error" \notin DOMAIN tx =>
        LET change == outputAmountFrom(tx.outs, 2)
            paid == total - outputAmountFrom(tx.outs, 1) IN
        /\ tx.outs[1] = [value |-> amount, address |-> "htlcAddress"]
        /\ Cardinality({i \in DOMAIN tx.outs :
                          tx.outs[i].address = "htlcAddress"}) = 1
        /\ IF remainder > 546
             THEN /\ Len(tx.outs) = 2
                  /\ tx.outs[2] = [value |-> remainder, address |-> "changeAddress"]
                  /\ paid = 1000
             ELSE /\ Len(tx.outs) = 1
                  /\ paid = 1000 + remainder
        /\ total = amount + change + paid

\* C23 witness: a funding transaction was returned whose remainder, exactly 546,
\* went to the fee.
C23_Witness ==
    /\ last.op = "buildFundingTx"
    /\ "error" \notin DOMAIN last.result
    /\ totalInputFrom(last.args[1], 1) = last.args[2] + 1000 + 546
    /\ Len(last.result.outs) = 1

\* C24: buildFundingTx returns no transaction when the total input is below
\* amount + 1000.
C24_FundingFailsWhenInsufficient ==
    [][\A values \in ValueLists, amount \in Amounts :
         /\ BuildFunding(Utxos(values), amount)
         /\ totalInputFrom(Utxos(values), 1) < amount + 1000
         => "error" \in DOMAIN last'.result]_vars

\* C27: every transaction buildRefundTx returns has a time-lock field at least
\* the locktime given, an input sequence that is not the final value 0xffffffff
\* (the largest a sequence can be), and the witness refund signature,
\* delayed-branch selector, script, in that order.
C27_RefundTxShape ==
    [][\A script \in RedeemScripts, k \in BtcKeys, lt \in 0..MaxTime :
         BuildRefund(script, k, lt) =>
           LET tx == last'.result IN
           /\ tx.locktime >= lt
           /\ Len(tx.ins) = 1
           /\ tx.ins[1].sequence # SequenceFinal
           /\ tx.ins[1].witness = <<signInput(k), "00", script>>
       ]_vars

\* C27 witness: buildRefundTx returned a transaction for a locktime above zero.
C27_Witness ==
    /\ last.op = "buildRefundTx"
    /\ last.args[3] > 0
    /\ last.result.locktime = last.args[3]

\* C28: every transaction buildRedeemTx returns has a witness of exactly four
\* elements: the signature of the recipient key pair, the secret passed in, the
\* immediate-branch selector, and the redeem script, in that order.
C28_RedeemWitnessShape ==
    [][\A script \in RedeemScripts, s \in BuilderSecrets, k \in BtcKeys :
         BuildRedeem(script, s, k) =>
           LET w == last'.result.ins[1].witness IN
           /\ Len(last'.result.ins) = 1
           /\ Len(w) = 4
           /\ w[1] = signInput(k)
           /\ w[2] = s
           /\ w[3] = "01"
           /\ w[4] = script
       ]_vars

\* C28 witness: buildRedeemTx returned a transaction carrying a 32-byte secret.
C28_Witness ==
    /\ last.op = "buildRedeemTx"
    /\ last.args[2] \in Bytes32
    /\ Len(last.result.ins[1].witness) = 4

\* C29: extractSecretFromTx applied to the transaction buildRedeemTx built with
\* a 32-byte secret s returns s, which is neither the signature nor the
\* selector; applied to a refund transaction, whose witness holds only the
\* signature, the selector and the script, it returns null.
C29_ExtractAfterBuildRedeem ==
    [][/\ \A script \in RedeemScripts, s \in Bytes32, k \in BtcKeys :
            ExtractSecret(buildRedeemTx(htlcUtxo, script, k, s, k)) =>
              /\ last'.result = s
              /\ last'.result # signInput(k)
              /\ last'.result # "01"
       /\ \A script \in RedeemScripts, k \in BtcKeys, lt \in 0..MaxTime :
            ExtractSecret(buildRefundTx(htlcUtxo, script, k, k, lt)) =>
              last'.result = NULL
       ]_vars

\* C29 witness: extractSecretFromTx returned the secret of a redeem transaction.
C29_Witness ==
    /\ last.op = "extractSecretFromTx"
    /\ Len(last.args[1].ins[1].witness) = 4
    /\ last.result \in Bytes32
    /\ last.result = last.args[1].ins[1].witness[2]

\* The two ways the script lets a transaction spend the output at chain time t.
ImmediateBranch(script, tx) ==
    LET w == tx.ins[1].witness IN
    /\ Len(w) = 4
    /\ w[1] = signInput(script.recipientPubkey)
    /\ sha256(w[2]) = script.hashlock
    /\ w[3] = "01"

DelayedBranch(script, tx, t) ==
    LET w == tx.ins[1].witness IN
    /\ Len(w) = 3
    /\ w[1] = signInput(script.refundPubkey)
    /\ w[2] = "00"
    /\ tx.locktime >= script.locktime
    /\ t >= script.locktime

\* C25: every accepted spend of the locked output, built by buildRedeemTx or
\* buildRefundTx or written by hand, goes through the immediate branch (the
\* recipient's signature and a preimage of the hashlock) or through the delayed
\* branch (the refund key's signature, time-lock and chain time at or past the
\* script's locktime); a spend accepted before the locktime carries the
\* preimage.
C25_OnlyTwoWaysToSpend ==
    [][htlc' # htlc =>
         /\ \A tx \in HandWritten4 \cup HandWritten3 :
              BtcBroadcast(tx) =>
                /\ \/ ImmediateBranch(htlc.script, tx)
                   \/ DelayedBranch(htlc.script, tx, now)
                /\ now < htlc.script.locktime => ImmediateBranch(htlc.script, tx)
         /\ \A k \in BtcKeys, s \in Bytes32 :
              BtcRedeem(k, s) =>
                /\ k = htlc.script.recipientPubkey
                /\ sha256(s) = htlc.script.hashlock
         /\ \A k \in BtcKeys, lt \in 0..MaxTime :
              BtcRefund(k, lt) =>
                /\ k = htlc.script.refundPubkey
                /\ lt >= htlc.script.locktime
                /\ now >= htlc.script.locktime
       ]_vars

\* C25 witness: a hand-written spend through the delayed branch was accepted.
C25_Witness ==
    /\ last = Receipt("btc-broadcast", "ok")
    /\ htlc.state = "refunded"
    /\ now >= htlc.script.locktime

\* C26: a refund transaction built by buildRefundTx for locktime T is rejected
\* while the chain time is below T; built by the refund key for the script's
\* locktime or a later T, it is accepted once the chain time is at least T and
\* the output is unspent.
C26_RefundRejectedBeforeAcceptedAfter ==
    [][\A k \in BtcKeys, lt \in 0..MaxTime :
         BtcRefund(k, lt) =>
           /\ now < lt => last'.result = "rejected" /\ htlc' = htlc
           /\ /\ now >= lt
              /\ htlc.state = "locked"
              /\ k = htlc.script.refundPubkey
              /\ lt >= htlc.script.locktime
              => last'.result = "ok" /\ htlc'.state = "refunded"
       ]_vars

\* C26 witness: the refund transaction was accepted at the script's locktime.
C26_Witness ==
    /\ last = Receipt("btc-refund", "ok")
    /\ htlc.state = "refunded"
    /\ now = htlc.script.locktime

C31_ExpiredEscrowEventuallyRefunded ==
    \A i \in 1..MaxEscrows :
      [](/\ i \in DOMAIN escrows
         /\ now >= escrows[i].timeout
         /\ ~escrows[i].claimed
         => <>(/\ i \in DOMAIN escrows
               /\ escrows[i].refunded
               /\ escrows[i].paidDeployer = escrows[i].amount))

\* C32: while the swap's secret is not revealed, the responses of GET /swap/:id
\* and GET /swaps hold no secret field, and they are the responses a table with
\* any other secret in that row gives.
C32_ReadsHideUnrevealedSecret ==
    [][swap # NoSwap /\ ~swap.secret_revealed =>
         /\ GetSwap =>
              /\ "secret" \notin DOMAIN last'.body
              /\ \A other \in generateSecret :
                   last'.body = getSwap([swap EXCEPT !.secret = other])
         /\ \A st \in StatusFilters, dir \in DirectionFilters :
              GetSwaps(st, dir) =>
                /\ \A i \in DOMAIN last'.body : "secret" \notin DOMAIN last'.body[i]
                /\ \A other \in generateSecret :
                     last'.body = getSwaps(<<[swap EXCEPT !.secret = other]>>, st, dir)
       ]_vars

\* C32 witness: GET /swaps returned the row of a swap whose secret is not
\* revealed.
C32_Witness ==
    /\ swap # NoSwap
    /\ ~swap.secret_revealed
    /\ last.op = "get-swaps"
    /\ Len(last.body) = 1

\* C33: what a call of createHTLCScript returned is determined by its four
\* inputs alone, whatever was called before: the redeem script is the script of
\* these four pushes, the scriptPubKey and the lock address are those of that
\* script.
C33_ScriptDeterminedByInputs ==
    last.op = "createHTLCScript" =>
      LET params == last.args[1]
          script == [hashlock |-> params.hashlock,
                     recipientPubkey |-> params.recipientPubkey,
                     locktime |-> params.locktime,
                     refundPubkey |-> params.refundPubkey] IN
      /\ last.result.redeemScript = script
      /\ last.result.scriptPubKey = <<"OP_0", "sha256", script>>
      /\ last.result.address = <<"tb1q", "sha256", script>>

\* C33 witness: createHTLCScript returned a script for locktime 2.
C33_Witness ==
    /\ last.op = "createHTLCScript"
    /\ last.args[1].locktime = 2
    /\ last.result.redeemScript.locktime = 2

\* A caller completes the swap with a secret the coordinator has disclosed:
\* submit-secret answers 200, or claim-eth sends the claim to the escrow.
RevealDisclosedSecret ==
    \E s \in DisclosedSecrets :
      \/ SubmitSecret(s) /\ swap'.status = "completed"
      \/ ClaimEthBegin(s) /\ inflight' # inflight

\* C34: once a btc-to-eth swap is created and both legs are funded (fund-btc,
\* fund-eth answered 200), the claiming party can reveal the secret with what
\* the coordinator has disclosed: a reveal that completes the swap is possible.
C34_BtcToEthCanComplete ==
    /\ swap # NoSwap
    /\ swap.direction = "btc-to-eth"
    /\ swap.btc_funded
    /\ swap.eth_funded
    /\ swap.status = "funded"
    /\ inflight = {}
    => ENABLED RevealDisclosedSecret

\* The columns the INSERT of create fills from the request and the generated
\* secret.
CreatedColumns ==
    {"id", "direction", "hashlock", "secret", "btc_amount", "eth_amount",
     "btc_pubkey", "eth_address", "expiration"}

\* C35: once the row exists, no step (fund-btc, fund-eth, submit-secret,
\* claim-eth, refund-eth, answered with success or with an error) changes its
\* hashlock, secret, direction, amounts, addresses or expiration, and the row
\* stays.
C35_CreatedColumnsNeverChange ==
    [][swap # NoSwap =>
         /\ swap' # NoSwap
         /\ \A column \in CreatedColumns : swap'[column] = swap[column]]_vars

\* C35 witness: the row went through fund-btc, fund-eth and a refund-eth that
\* answered 200.
C35_Witness ==
    /\ swap # NoSwap
    /\ swap.btc_funded
    /\ swap.eth_funded
    /\ swap.status = "refunded"
    /\ last = Receipt("refund-eth", "200")

C37_OneEscrowPerSwap ==
    [][/\ Len(escrows') <= 1
       /\ swap # NoSwap /\ swap.eth_escrow_address # NoAddress =>
            swap'.eth_escrow_address = swap.eth_escrow_address]_vars

\* C38: in every state, a row whose status is completed has secret_revealed
\* true; and a step never takes secret_revealed back to false.
C38_CompletedImpliesRevealed ==
    [][swap' # NoSwap =>
         /\ swap'.status = "completed" => swap'.secret_revealed
         /\ swap # NoSwap /\ swap.secret_revealed => swap'.secret_revealed]_vars

\* C38 witness: claim-eth answered 200 and left the row completed with its
\* secret revealed.
C38_Witness ==
    /\ swap # NoSwap
    /\ swap.status = "completed"
    /\ swap.secret_revealed
    /\ last = Receipt("claim-eth", "200")

\* C39: every deployed escrow holds its full amount while neither claimed nor
\* refunded, has paid that amount to the recipient exactly when claimed, to the
\* deployer exactly when refunded, and has never paid out more than the amount
\* locked at creation.
C39_PaysOutAtMostOnce ==
    \A i \in DOMAIN escrows :
      LET e == escrows[i] IN
      /\ ~e.claimed /\ ~e.refunded => e.balance = e.amount
      /\ e.paidRecipient = (IF e.claimed THEN e.amount ELSE 0)
      /\ e.paidDeployer = (IF e.refunded THEN e.amount ELSE 0)
      /\ e.paidRecipient + e.paidDeployer <= e.amount
      /\ e.balance + e.paidRecipient + e.paidDeployer = e.amount

\* C39 witness: one escrow has paid its recipient and another its deployer.
C39_Witness ==
    \E i, j \in DOMAIN escrows :
      /\ escrows[i].claimed
      /\ escrows[i].paidRecipient = escrows[i].amount
      /\ escrows[i].balance = 0
      /\ escrows[j].refunded
      /\ escrows[j].paidDeployer = escrows[j].amount
      /\ escrows[j].balance = 0

====
